---- MODULE Spec2Model ----
(***************************************************************************)
(* A model of the school-administration dashboard: the report-card         *)
(* leaderboards of pages/ReportCards.tsx, the fee-structure manager of     *)
(* components/finance/FeeStructureManager.tsx, and the balance views of    *)
(* pages/StudentProfile.tsx and of FinanceEntry (components/forms/         *)
(* StudentForm.tsx).  Rows of the hosted store are records; a table is the *)
(* sequence of its rows in insertion order.                                *)
(***************************************************************************)
EXTENDS Integers, Sequences, FiniteSets, TLC

(***************************************************************************)
(* Bounds of the model and constants of the program.                       *)
(***************************************************************************)
\* Students that may hold report cards: one more than the school cut-off.
NumStudents == 11
\* The school leaderboard keeps the first ten entries (.slice(0, 10)).
TopN == 10

\* The roster: student 1 sits in class "A", every other one in class "B".
Classes == {"A", "B"}
Students == 1..NumStudents
ClassOf(s) == IF s = 1 THEN "A" ELSE "B"
\* subjects.class_id: a subject belongs to one class.
SubjectsOf(c) == IF c = "A" THEN <<"math", "english">> ELSE <<"science">>
\* Scores the entry form is given in the model (both pass 0 <= score <= 100).
Scores == {5, 100}

\* Fee structures and payments the store may hold in the model.
MaxStructures == 2
MaxPayments == 2
Years == {"Y1", "Y2"}
\* Browser sessions that save scores at the same time.
Sessions == {1, 2}
\* A session with no score save in flight.
NoSave == [pending |-> FALSE]

\* A session whose handlers have all returned.
Idle == [handler |-> ""]

\* Nothing has been rendered yet.
NoRender == [done |-> FALSE]

VARIABLES
  allReportCards,   \* report_cards rows of the selected term and year, in storage order
  selectedClass,    \* ReportCards: useState('') selectedClass
  fee_structures,   \* table fee_structures; a row's id is its position
  fee_payments,     \* table fee_payments
  selectedYearId,   \* AcademicYearProvider: useState(null) selectedYearId ("" for null)
  editingId,        \* FeeStructureManager: useState(null) editingId (0 for null)
  isOpen,           \* FeeStructureManager: useState(false) isOpen
  toast,            \* the description of the last toast shown ("" before the first)
  selectedStudent,  \* FinanceEntry: useState('') selectedStudent (0 for '')
  academic_years,   \* table academic_years, as the set of its rows
  activating,       \* setActiveYear between its two updates: the year's id ("" otherwise)
  gradeSaves,       \* per session, the score save between its lookup and its write
  rendered,         \* what the last render computed, with the snapshot it was computed from
  inFlight,         \* per session, the handler that is waiting between two awaits
  attendance        \* table attendance

feeVars == <<fee_structures, fee_payments, selectedYearId, editingId, isOpen, toast, selectedStudent>>
auxVars == <<academic_years, activating, gradeSaves, rendered, inFlight, attendance>>
vars == <<allReportCards, selectedClass, fee_structures, fee_payments, selectedYearId,
          editingId, isOpen, toast, selectedStudent, academic_years, activating, gradeSaves,
          rendered, inFlight, attendance>>

(***************************************************************************)
(* Library calls of the source, by what they do.                           *)
(***************************************************************************)
\* A variant of classReports that keeps every row.
unfilteredReports(reports, c) == reports
\* allReportCards.filter(r => r.students?.class_id === selectedClass)
classReports(reports, c) ==
  LET F[i \in 0..Len(reports)] ==
        IF i = 0 THEN <<>>
        ELSE IF ClassOf(reports[i].student_id) = c THEN Append(F[i-1], reports[i])
             ELSE F[i-1]
  IN F[Len(reports)]

\* A variant of MathRound that truncates: Math.floor(n / d).
MathFloor(n, d) == n \div d

\* Math.round(n / d) for d > 0: the nearest integer, a half rounded up.
MathRound(n, d) == (2 * n + d) \div (2 * d)

\* Variants of Slice: slice(0, n + 1), and slice(-n).
SliceOffByOne(seq, n) == SubSeq(seq, 1, IF Len(seq) < n + 1 THEN Len(seq) ELSE n + 1)
SliceTail(seq, n) == SubSeq(seq, IF Len(seq) < n THEN 1 ELSE Len(seq) - n + 1, Len(seq))

\* Array.prototype.slice(0, n)
Slice(seq, n) == SubSeq(seq, 1, IF Len(seq) < n THEN Len(seq) ELSE n)

(***************************************************************************)
(* ReportCards.tsx: the aggregation shared by both leaderboards.           *)
(***************************************************************************)
IndexOfStudent(map, sid) ==
  IF \E k \in 1..Len(map) : map[k].student = sid
  THEN CHOOSE k \in 1..Len(map) : map[k].student = sid
  ELSE 0

\* The forEach over the rows: studentMap[sid] is created at the student's first
\* row and accumulates totalScore and count.  Object.values lists the entries in
\* the order their keys were created, which is the order of the sequence here.
StudentMap(reports) ==
  LET F[i \in 0..Len(reports)] ==
        IF i = 0 THEN <<>>
        ELSE LET r == reports[i]
                 m == F[i-1]
                 k == IndexOfStudent(m, r.student_id)
                 m1 == IF k = 0
                       THEN Append(m, [student |-> r.student_id, totalScore |-> 0, count |-> 0])
                       ELSE m
                 k1 == IF k = 0 THEN Len(m1) ELSE k
             IN [m1 EXCEPT ![k1].totalScore = @ + r.score, ![k1].count = @ + 1]
  IN F[Len(reports)]

\* .map(s => ({ ...s, average: s.count > 0 ? Math.round(s.totalScore / s.count) : 0 }))
WithAverage(map) ==
  [k \in 1..Len(map) |->
     [student |-> map[k].student, totalScore |-> map[k].totalScore, count |-> map[k].count,
      average |-> IF map[k].count > 0 THEN MathRound(map[k].totalScore, map[k].count) ELSE 0]]

\* A variant of InsertDesc that is not a function of its input alone: while the
\* dialog is open an entry goes before the entries of equal average.
InsertDescBySession(sorted, e) ==
  LET pos == IF isOpen
             THEN Cardinality({k \in 1..Len(sorted) : sorted[k].average > e.average})
             ELSE Cardinality({k \in 1..Len(sorted) : sorted[k].average >= e.average})
  IN SubSeq(sorted, 1, pos) \o <<e>> \o SubSeq(sorted, pos + 1, Len(sorted))

\* .sort((a, b) => b.average - a.average): a stable sort, larger averages first.
InsertDesc(sorted, e) ==
  LET pos == Cardinality({k \in 1..Len(sorted) : sorted[k].average >= e.average})
  IN SubSeq(sorted, 1, pos) \o <<e>> \o SubSeq(sorted, pos + 1, Len(sorted))

\* A variant of SortByAverageDesc with the comparator reversed (a.average - b.average).
SortByAverageAsc(seq) ==
  LET InsertAsc(sorted, e) ==
        LET pos == Cardinality({k \in 1..Len(sorted) : sorted[k].average <= e.average})
        IN SubSeq(sorted, 1, pos) \o <<e>> \o SubSeq(sorted, pos + 1, Len(sorted))
      F[i \in 0..Len(seq)] == IF i = 0 THEN <<>> ELSE InsertAsc(F[i-1], seq[i])
  IN F[Len(seq)]

SortByAverageDesc(seq) ==
  LET F[i \in 0..Len(seq)] == IF i = 0 THEN <<>> ELSE InsertDesc(F[i-1], seq[i])
  IN F[Len(seq)]

\* A variant of AssignRanks that numbers the distinct averages (dense ranking):
\* an entry that differs from the previous one gets the previous rank plus one.
AssignRanksDense(arr) ==
  LET F[i \in 0..Len(arr)] ==
        IF i = 0 THEN <<>>
        ELSE LET prev == F[i-1]
                 rank == IF i = 1 THEN 1
                         ELSE IF arr[i].average = arr[i-1].average
                              THEN prev[i-1].rank ELSE prev[i-1].rank + 1
             IN Append(prev, [student |-> arr[i].student, totalScore |-> arr[i].totalScore,
                              count |-> arr[i].count, average |-> arr[i].average,
                              rank |-> rank])
  IN F[Len(arr)]

\* A variant of AssignRanks that carries the position of the entry before, not
\* its rank: an entry equal to the previous one gets that entry's position.
AssignRanksFromPosition(arr) ==
  LET F[i \in 0..Len(arr)] ==
        IF i = 0 THEN <<>>
        ELSE LET prev == F[i-1]
                 rank == IF i > 1 /\ arr[i].average = arr[i-1].average
                         THEN i - 1 ELSE i
             IN Append(prev, [student |-> arr[i].student, totalScore |-> arr[i].totalScore,
                              count |-> arr[i].count, average |-> arr[i].average,
                              rank |-> rank])
  IN F[Len(arr)]

\* .map((s, i, arr) => ...): rank = i + 1 (0-based i), or the rank already written
\* on arr[i - 1] when the two averages are equal.
AssignRanks(arr) ==
  LET F[i \in 0..Len(arr)] ==
        IF i = 0 THEN <<>>
        ELSE LET prev == F[i-1]
                 rank == IF i > 1 /\ arr[i].average = arr[i-1].average
                         THEN prev[i-1].rank ELSE i
             IN Append(prev, [student |-> arr[i].student, totalScore |-> arr[i].totalScore,
                              count |-> arr[i].count, average |-> arr[i].average,
                              rank |-> rank])
  IN F[Len(arr)]

\* useMemo classLeaderboard
classLeaderboard ==
  IF selectedClass = "" THEN <<>>
  ELSE AssignRanks(SortByAverageDesc(WithAverage(StudentMap(
         classReports(allReportCards, selectedClass)))))

\* useMemo schoolLeaderboard
schoolLeaderboard ==
  AssignRanks(Slice(SortByAverageDesc(WithAverage(StudentMap(allReportCards))), TopN))

(***************************************************************************)
(* ReportCards.tsx: the operations that change what the leaderboards read. *)
(***************************************************************************)
RowIndex(s, j) ==
  IF \E k \in 1..Len(allReportCards) :
       allReportCards[k].student_id = s /\ allReportCards[k].subject_id = j
  THEN CHOOSE k \in 1..Len(allReportCards) :
       allReportCards[k].student_id = s /\ allReportCards[k].subject_id = j
  ELSE 0

StudentsWithRows == {allReportCards[k].student_id : k \in 1..Len(allReportCards)}
RowsOf(s) == {k \in 1..Len(allReportCards) : allReportCards[k].student_id = s}

\* The order in which the model lets new keys appear: students in roster order,
\* and each student's subjects in the order of the class's subject list.
NextKeyInOrder(s, n) ==
  \/ n = 1 /\ s = Cardinality(StudentsWithRows) + 1
  \/ n > 1 /\ s = Cardinality(StudentsWithRows) /\ n = Cardinality(RowsOf(s)) + 1

\* gradeMutation, run to completion, followed by the refetch its onSuccess asks
\* for: the row of the key is updated when the lookup finds one and inserted
\* otherwise.
gradeMutation(s, n, score) ==
  LET j == SubjectsOf(ClassOf(s))[n]
      k == RowIndex(s, j)
  IN /\ IF k > 0
        THEN allReportCards' = [allReportCards EXCEPT ![k].score = score]
        ELSE /\ NextKeyInOrder(s, n)
             /\ allReportCards' =
                  Append(allReportCards, [student_id |-> s, subject_id |-> j, score |-> score])
     /\ UNCHANGED <<selectedClass, feeVars, auxVars>>

\* <Select value={selectedClass} onValueChange={setSelectedClass}>
setSelectedClass(c) ==
  /\ selectedClass' = c
  /\ UNCHANGED <<allReportCards, feeVars, auxVars>>

\* The state after the first render, before any row is stored.
Init ==
  /\ allReportCards = <<>>
  /\ selectedClass = ""
  /\ fee_structures = <<>>
  /\ fee_payments = <<>>
  /\ selectedYearId = ""
  /\ editingId = 0
  /\ isOpen = FALSE
  /\ toast = ""
  /\ selectedStudent = 0
  /\ academic_years = {[id |-> "Y1", is_active |-> TRUE]}
  /\ activating = ""
  /\ gradeSaves = [session \in Sessions |-> NoSave]
  /\ rendered = NoRender
  /\ inFlight = [session \in Sessions |-> Idle]
  /\ attendance = <<>>

NextRank ==
  \/ \E s \in Students : \E n \in 1..Len(SubjectsOf(ClassOf(s))) : \E score \in Scores :
       gradeMutation(s, n, score)
  \/ \E c \in Classes : setSelectedClass(c)

\* The report-card page alone: the leaderboards over every snapshot of the bounds.
SpecRank == Init /\ [][NextRank]_vars

(* ---------------- Fee structures: FeeStructureManager ---------------- *)

\* parseFloat over the texts the fee fields receive in the model: the number a
\* text starts with, NaN for the empty text and for text that holds no number.
ParseFloat(str) ==
  CASE str = "50000" -> [nan |-> FALSE, value |-> 50000]
    [] str = "10000" -> [nan |-> FALSE, value |-> 10000]
    [] str = "-50000" -> [nan |-> FALSE, value |-> -50000]
    [] str = "100000" -> [nan |-> FALSE, value |-> 100000]
    [] str = "300000" -> [nan |-> FALSE, value |-> 300000]
    [] OTHER -> [nan |-> TRUE, value |-> 0]

\* parseFloat(x) || 0: NaN and 0 are falsy.
OrZero(p) == IF p.nan \/ p.value = 0 THEN 0 ELSE p.value

MissingSelection == "Please select a class and ensure an academic year is active."
InvalidTotal == "Total fee must be greater than zero."
DuplicateStructure == "A fee structure already exists for this class and academic year."
StructureUpdated == "Fee structure updated successfully."
StructureCreated == "Fee structure created successfully."
StructureRemoved == "Fee structure deactivated."
StorageError == "error.message"

TotalWithoutOther(tuition, exam, other) == tuition + exam
TotalOf(tuition, exam, other) == tuition + exam + other

TotalIsNegative(total) == total < 0
TotalIsInvalid(total) == total <= 0

\* A variant of ActiveExists that does not look at is_active.
ExistsAnyStatus(classId, yearId) ==
  \E k \in 1..Len(fee_structures) :
    /\ fee_structures[k].class_id = classId
    /\ fee_structures[k].academic_year_id = yearId
\* The duplicate lookup: an active row of the class and the year (limit 1).
ActiveExists(classId, yearId) ==
  \E k \in 1..Len(fee_structures) :
    /\ fee_structures[k].class_id = classId
    /\ fee_structures[k].academic_year_id = yearId
    /\ fee_structures[k].is_active

payload(classId, tuition, exam, other, total) ==
  [class_id |-> classId, academic_year_id |-> selectedYearId,
   tuition_fee |-> tuition, exam_fee |-> exam, other_fee |-> other,
   total_fee |-> total, amount |-> total, fee_type |-> "annual", is_active |-> TRUE]

\* The rows of the table under the dialog: active rows of the selected year.
Displayed(id) ==
  /\ id \in 1..Len(fee_structures)
  /\ fee_structures[id].is_active
  /\ selectedYearId # "" => fee_structures[id].academic_year_id = selectedYearId

\* A variant of handleSave without "if (error) throw error": an insert or
\* update that comes back with an error is reported as a success.
handleSaveIgnoringError(classId, tuitionFee, examFee, otherFee, checkOk, storageOk) ==
  LET tuition == OrZero(ParseFloat(tuitionFee))
      exam == OrZero(ParseFloat(examFee))
      other == OrZero(ParseFloat(otherFee))
      total == TotalOf(tuition, exam, other)
      Rejected(msg) == /\ toast' = msg
                       /\ UNCHANGED <<fee_structures, editingId, isOpen>>
  IN
  /\ isOpen
  /\ IF classId = "" \/ selectedYearId = "" THEN Rejected(MissingSelection)
     ELSE IF TotalIsInvalid(total) THEN Rejected(InvalidTotal)
     ELSE IF editingId = 0 /\ checkOk /\ ActiveExists(classId, selectedYearId)
          THEN Rejected(DuplicateStructure)
     ELSE IF ~storageOk
          THEN /\ toast' = IF editingId # 0 THEN StructureUpdated ELSE StructureCreated
               /\ editingId' = 0
               /\ isOpen' = FALSE
               /\ UNCHANGED fee_structures
     ELSE /\ IF editingId # 0
             THEN /\ fee_structures' = [fee_structures EXCEPT ![editingId] =
                                          payload(classId, tuition, exam, other, total)]
                  /\ toast' = StructureUpdated
             ELSE /\ Len(fee_structures) < MaxStructures
                  /\ fee_structures' = Append(fee_structures,
                                          payload(classId, tuition, exam, other, total))
                  /\ toast' = StructureCreated
          /\ editingId' = 0
          /\ isOpen' = FALSE
  /\ UNCHANGED <<allReportCards, selectedClass, auxVars, fee_payments, selectedYearId, selectedStudent>>

\* The Create/Update button of the dialog. The fields of the form are the
\* texts typed before the click; checkOk and storageOk say whether the
\* duplicate lookup and the write come back without an error.
handleSave(classId, tuitionFee, examFee, otherFee, checkOk, storageOk) ==
  LET tuition == OrZero(ParseFloat(tuitionFee))
      exam == OrZero(ParseFloat(examFee))
      other == OrZero(ParseFloat(otherFee))
      total == TotalOf(tuition, exam, other)
      Rejected(msg) == /\ toast' = msg
                       /\ UNCHANGED <<fee_structures, editingId, isOpen>>
  IN
  /\ isOpen
  /\ IF classId = "" \/ selectedYearId = "" THEN Rejected(MissingSelection)
     ELSE IF TotalIsInvalid(total) THEN Rejected(InvalidTotal)
     ELSE IF editingId = 0 /\ checkOk /\ ActiveExists(classId, selectedYearId)
          THEN Rejected(DuplicateStructure)
     ELSE IF ~storageOk THEN Rejected(StorageError)
     ELSE /\ IF editingId # 0
             THEN /\ fee_structures' = [fee_structures EXCEPT ![editingId] =
                                          payload(classId, tuition, exam, other, total)]
                  /\ toast' = StructureUpdated
             ELSE /\ Len(fee_structures) < MaxStructures
                  /\ fee_structures' = Append(fee_structures,
                                          payload(classId, tuition, exam, other, total))
                  /\ toast' = StructureCreated
          /\ editingId' = 0
          /\ isOpen' = FALSE
  /\ UNCHANGED <<allReportCards, selectedClass, auxVars, fee_payments, selectedYearId, selectedStudent>>

\* The pencil button of a displayed row: opens the dialog on that row.
handleEdit(id) ==
  /\ ~isOpen
  /\ Displayed(id)
  /\ editingId' = id
  /\ isOpen' = TRUE
  /\ UNCHANGED <<allReportCards, selectedClass, auxVars, fee_structures, fee_payments,
                 selectedYearId, toast, selectedStudent>>

\* A variant of handleDelete that deletes the row (.delete().eq('id', id)).
handleDeleteRemovingRow(id, storageOk) ==
  /\ ~isOpen
  /\ Displayed(id)
  /\ IF storageOk
     THEN /\ fee_structures' = SubSeq(fee_structures, 1, id - 1)
                                 \o SubSeq(fee_structures, id + 1, Len(fee_structures))
          /\ toast' = StructureRemoved
     ELSE /\ toast' = StorageError
          /\ UNCHANGED fee_structures
  /\ UNCHANGED <<allReportCards, selectedClass, auxVars, fee_payments, selectedYearId,
                 editingId, isOpen, selectedStudent>>

\* The bin button of a displayed row: deactivates the row.
handleDelete(id, storageOk) ==
  /\ ~isOpen
  /\ Displayed(id)
  /\ IF storageOk
     THEN /\ fee_structures' = [fee_structures EXCEPT ![id].is_active = FALSE]
          /\ toast' = StructureRemoved
     ELSE /\ toast' = StorageError
          /\ UNCHANGED fee_structures
  /\ UNCHANGED <<allReportCards, selectedClass, auxVars, fee_payments, selectedYearId,
                 editingId, isOpen, selectedStudent>>

\* The "Add Fee Structure" trigger of the dialog.
openDialog ==
  /\ ~isOpen
  /\ isOpen' = TRUE
  /\ UNCHANGED <<allReportCards, selectedClass, auxVars, fee_structures, fee_payments,
                 selectedYearId, editingId, toast, selectedStudent>>

\* Cancel, or closing the dialog.
resetForm ==
  /\ isOpen
  /\ editingId' = 0
  /\ isOpen' = FALSE
  /\ UNCHANGED <<allReportCards, selectedClass, auxVars, fee_structures, fee_payments,
                 selectedYearId, toast, selectedStudent>>

\* The academic year switcher, and the provider's selection of the active year.
setSelectedYearId(y) ==
  /\ selectedYearId' = y
  /\ UNCHANGED <<allReportCards, selectedClass, auxVars, fee_structures, fee_payments,
                 editingId, isOpen, toast, selectedStudent>>

Next ==
  \/ \E classId \in {"", "B"} : \E tuitionFee \in {"", "50000"} :
       \E examFee \in {"abc"} : \E otherFee \in {"10000", "-50000"} :
         \E checkOk \in BOOLEAN : \E storageOk \in BOOLEAN :
           handleSave(classId, tuitionFee, examFee, otherFee, checkOk, storageOk)
  \/ \E id \in 1..MaxStructures : handleEdit(id)
  \/ \E id \in 1..MaxStructures : \E storageOk \in BOOLEAN : handleDelete(id, storageOk)
  \/ openDialog
  \/ resetForm
  \/ \E y \in Years : setSelectedYearId(y)

\* The fee structure manager of one session.
Spec == Init /\ [][Next]_vars


(***************************************************************************)
(* What the leaderboards are checked against: the rows of a student, their *)
(* sum, and the rounding rule, each stated without the code's operators.   *)
(***************************************************************************)
RECURSIVE SumScoresOf(_)
SumScoresOf(rows) ==
  IF rows = {} THEN 0
  ELSE LET k == CHOOSE x \in rows : TRUE
       IN allReportCards[k].score + SumScoresOf(rows \ {k})

\* a is n / d rounded to the nearest integer, a half rounded up.
IsRoundHalfUp(a, n, d) == 2 * a * d - d <= 2 * n /\ 2 * n < 2 * a * d + d

AverageOf(s) ==
  CHOOSE a \in 0..100 : IsRoundHalfUp(a, SumScoresOf(RowsOf(s)), Cardinality(RowsOf(s)))

StudentsOfClassWithRows(c) == {s \in StudentsWithRows : ClassOf(s) = c}
EntryStudents(lb) == {lb[i].student : i \in 1..Len(lb)}
Averages(lb) == [i \in 1..Len(lb) |-> lb[i].average]
Ranks(lb) == [i \in 1..Len(lb) |-> lb[i].rank]

\* C1: in the class leaderboard the first entry has rank 1 and every later entry
\* has the rank of the entry before it when the two averages are equal, and its
\* 1-based position otherwise; three entries whose averages are [x, x, y] with
\* x > y have the ranks [1, 1, 3].
C1_CarryForwardRank ==
  LET lb == classLeaderboard
  IN /\ \A i \in 1..Len(lb) :
          lb[i].rank = IF i = 1 THEN 1
                       ELSE IF lb[i].average = lb[i-1].average THEN lb[i-1].rank ELSE i
     /\ (Len(lb) = 3 /\ lb[1].average = lb[2].average /\ lb[2].average > lb[3].average)
          => Ranks(lb) = <<1, 1, 3>>

C1_Witness ==
  LET lb == classLeaderboard
  IN Len(lb) = 3 /\ Averages(lb) = <<100, 100, 5>> /\ Ranks(lb) = <<1, 1, 3>>

\* C2: when there are score records (all scores in 0..100), every entry of the
\* class and of the school leaderboard has an average in 0..100, the averages
\* never increase along the leaderboard and the ranks never decrease.
C2_AveragesBoundedAndOrdered ==
  LET Ordered(lb) ==
        /\ \A i \in 1..Len(lb) : lb[i].average >= 0 /\ lb[i].average <= 100
        /\ \A i \in 2..Len(lb) : lb[i-1].average >= lb[i].average
        /\ \A i \in 2..Len(lb) : lb[i-1].rank <= lb[i].rank
  IN allReportCards # <<>> => Ordered(classLeaderboard) /\ Ordered(schoolLeaderboard)

C2_Witness ==
  LET lb == classLeaderboard
  IN /\ Len(lb) >= 4
     /\ lb[1].average = 100 /\ lb[2].average = 100 /\ lb[3].average = 5 /\ lb[4].average = 5
     /\ lb[2].rank < lb[3].rank
     /\ Len(schoolLeaderboard) >= 5

\* C3: every leaderboard entry stands for one student and has total_score = the
\* sum of that student's scores, subject_count = the number of that student's
\* records and average = total_score / subject_count rounded to the nearest
\* integer, halves up; the class leaderboard has one entry for each student of
\* the selected class that has a record.
C3_AggregationPerStudent ==
  LET Aggregated(lb) ==
        \A i \in 1..Len(lb) :
          LET rows == RowsOf(lb[i].student)
          IN /\ lb[i].totalScore = SumScoresOf(rows)
             /\ lb[i].count = Cardinality(rows)
             /\ IsRoundHalfUp(lb[i].average, lb[i].totalScore, lb[i].count)
             /\ \A k \in 1..Len(lb) : lb[k].student = lb[i].student => k = i
      cl == classLeaderboard
  IN /\ Aggregated(cl)
     /\ Aggregated(schoolLeaderboard)
     /\ selectedClass # "" => EntryStudents(cl) = StudentsOfClassWithRows(selectedClass)

C3_Witness ==
  LET cl == classLeaderboard
      sl == schoolLeaderboard
  IN /\ Len(cl) = 1 /\ cl[1].count = 2 /\ cl[1].totalScore = 105 /\ cl[1].average = 53
     /\ \E i \in 1..Len(sl) : sl[i].student = 1 /\ sl[i].count = 2 /\ sl[i].average = 53
     /\ Len(sl) >= 3

\* The ranking of every aggregated student (no class filter), not truncated.
FullRanking == AssignRanks(SortByAverageDesc(WithAverage(StudentMap(allReportCards))))

\* C4: the school leaderboard is the ranking of all aggregated students cut to
\* its first TopN entries: each entry it keeps is the entry of the full ranking
\* at that position, rank included, and the student at position TopN + 1 is left
\* out, also when tied with the entry at position TopN.
C4_SchoolIsTruncatedFullRanking ==
  LET full == FullRanking
      sl == schoolLeaderboard
      kept == IF Len(full) < TopN THEN Len(full) ELSE TopN
  IN /\ sl = SubSeq(full, 1, kept)
     /\ Len(full) > TopN => full[TopN + 1].student \notin EntryStudents(sl)

C4_Witness ==
  LET full == FullRanking
      sl == schoolLeaderboard
  IN /\ Len(full) > TopN
     /\ full[TopN + 1].average = full[TopN].average
     /\ full[TopN + 1].rank = full[TopN].rank
     /\ full[TopN].rank > 1
     /\ Len(sl) = TopN
     /\ full[TopN + 1].student \notin EntryStudents(sl)

\* C5: the school leaderboard has min(TopN, number of students with a record)
\* entries, in descending order of average, and no student left out has an
\* average strictly greater than that of a student kept.
C5_SchoolTopByAverage ==
  LET sl == schoolLeaderboard
      n == Cardinality(StudentsWithRows)
  IN /\ Len(sl) = IF n < TopN THEN n ELSE TopN
     /\ \A i \in 2..Len(sl) : sl[i-1].average >= sl[i].average
     /\ EntryStudents(sl) \subseteq StudentsWithRows
     /\ \A x \in StudentsWithRows \ EntryStudents(sl) :
          \A i \in 1..Len(sl) : AverageOf(x) <= sl[i].average

C5_Witness ==
  LET sl == schoolLeaderboard
  IN /\ Cardinality(StudentsWithRows) > TopN
     /\ Len(sl) = TopN
     /\ \E x \in StudentsWithRows \ EntryStudents(sl) :
          \A i \in 1..Len(sl) : AverageOf(x) < sl[i].average
     /\ sl[1].average > sl[TopN].average

(* ---------------- Balances: StudentProfile and FinanceEntry ---------------- *)

\* formatCurrency: "Le " and the amount in en-US digit grouping without
\* fraction digits. The model's amounts are integers, which the grouping
\* writes out one to one; the text is kept as the prefix and the integer.
formatCurrency(amount) == <<"Le", amount>>

\* payments.reduce((sum, p) => sum + Number(p.amount_paid), 0)
SumAmountPaid(payments) ==
  LET F[i \in 0..Len(payments)] ==
        IF i = 0 THEN 0 ELSE F[i-1] + payments[i].amount_paid
  IN F[Len(payments)]

\* A variant of balanceOf that never goes below zero.
balanceClamped(totalFee, totalPaid) ==
  IF totalFee - totalPaid < 0 THEN 0 ELSE totalFee - totalPaid
\* const balance = totalFee - totalPaid
balanceOf(totalFee, totalPaid) == totalFee - totalPaid

\* balance > 0 ? 'text-red-600' : 'text-green-600'
balanceClass(balance) == IF balance > 0 THEN "text-red-600" ELSE "text-green-600"

\* The active rows of a class and a year.
ActiveStructures(classId, yearId) ==
  {k \in 1..Len(fee_structures) :
     /\ fee_structures[k].class_id = classId
     /\ fee_structures[k].academic_year_id = yearId
     /\ fee_structures[k].is_active}

\* A variant of profilePayments that does not filter by year.
paymentsOfStudent(id) ==
  LET F[i \in 0..Len(fee_payments)] ==
        IF i = 0 THEN <<>>
        ELSE IF fee_payments[i].student_id = id THEN Append(F[i-1], fee_payments[i])
             ELSE F[i-1]
  IN F[Len(fee_payments)]
\* StudentProfile: the payments query, by student and by year when one is selected.
profilePayments(id) ==
  LET F[i \in 0..Len(fee_payments)] ==
        IF i = 0 THEN <<>>
        ELSE IF /\ fee_payments[i].student_id = id
                /\ selectedYearId # "" => fee_payments[i].academic_year_id = selectedYearId
             THEN Append(F[i-1], fee_payments[i])
             ELSE F[i-1]
  IN F[Len(fee_payments)]

\* StudentProfile: the feeStructure query (maybeSingle). 0 stands for no row:
\* null without a year or a match, undefined when several rows match and the
\* query fails.
profileFeeStructure(id) ==
  LET matches == ActiveStructures(ClassOf(id), selectedYearId) IN
    IF selectedYearId = "" \/ Cardinality(matches) # 1 THEN 0
    ELSE CHOOSE k \in matches : TRUE

profileTotalPaid(id) == SumAmountPaid(profilePayments(id))

\* feeStructure ? Number(feeStructure.total_fee || feeStructure.amount || 0) : 0
profileTotalFee(id) ==
  LET k == profileFeeStructure(id) IN
    IF k = 0 THEN 0
    ELSE IF fee_structures[k].total_fee # 0 THEN fee_structures[k].total_fee
    ELSE fee_structures[k].amount

profileBalance(id) == balanceOf(profileTotalFee(id), profileTotalPaid(id))

\* StudentProfile, Quick Stats card: the Balance line.
QuickStats(id) ==
  [text |-> formatCurrency(profileBalance(id)),
   className |-> balanceClass(profileBalance(id))]

\* StudentProfile, finance tab: the three summary cells, shown when totalFee > 0.
FinanceTab(id) ==
  IF profileTotalFee(id) > 0
  THEN [shown |-> TRUE,
        totalFee |-> formatCurrency(profileTotalFee(id)),
        paid |-> formatCurrency(profileTotalPaid(id)),
        balance |-> formatCurrency(profileBalance(id)),
        className |-> balanceClass(profileBalance(id))]
  ELSE [shown |-> FALSE, totalFee |-> <<>>, paid |-> <<>>, balance |-> <<>>,
        className |-> ""]

\* A variant of entryFeeStructures without .eq('academic_year_id', selectedYearId).
entryFeeStructuresAnyYear(student) ==
  LET rows == {k \in 1..Len(fee_structures) :
                 /\ fee_structures[k].class_id = ClassOf(student)
                 /\ fee_structures[k].is_active}
  IN IF student = 0 \/ selectedYearId = "" \/ rows = {} THEN {0} ELSE rows

\* FinanceEntry: the feeStructure query (limit(1).maybeSingle()) of a student.
\* With several matching rows the store returns any one of them: the set holds
\* every row the query can return, and 0 alone when it returns null.
entryFeeStructures(student) ==
  IF student = 0 \/ selectedYearId = ""
       \/ ActiveStructures(ClassOf(student), selectedYearId) = {}
  THEN {0}
  ELSE ActiveStructures(ClassOf(student), selectedYearId)

\* FinanceEntry: the existingPayments query, by student and year.
existingPayments(student) ==
  LET F[i \in 0..Len(fee_payments)] ==
        IF i = 0 THEN <<>>
        ELSE IF /\ student # 0
                /\ selectedYearId # ""
                /\ fee_payments[i].student_id = student
                /\ fee_payments[i].academic_year_id = selectedYearId
             THEN Append(F[i-1], fee_payments[i])
             ELSE F[i-1]
  IN F[Len(fee_payments)]

entryTotalPaid(student) == SumAmountPaid(existingPayments(student))

\* feeStructure?.total_fee || 0
entryTotalFee(fs) == IF fs = 0 THEN 0 ELSE fee_structures[fs].total_fee

entryBalance(student, fs) == balanceOf(entryTotalFee(fs), entryTotalPaid(student))

\* FinanceEntry below the student list, for the selected student and the row
\* the feeStructure query returned: the warning card and the balance summary.
FinanceEntryView(student, fs) ==
  [warning |-> student # 0 /\ fs = 0,
   shown |-> student # 0 /\ fs # 0,
   totalFee |-> IF student # 0 /\ fs # 0 THEN formatCurrency(entryTotalFee(fs)) ELSE <<>>,
   paid |-> IF student # 0 /\ fs # 0 THEN formatCurrency(entryTotalPaid(student)) ELSE <<>>,
   balance |-> IF student # 0 /\ fs # 0
               THEN formatCurrency(entryBalance(student, fs)) ELSE <<>>,
   className |-> IF student # 0 /\ fs # 0
                 THEN balanceClass(entryBalance(student, fs)) ELSE ""]

PaymentValidation == "Please select a student and enter an amount"
PaymentRecorded == "Payment recorded successfully."

\* A click on a row of the student list (out of reach under the open dialog).
handleStudentSelect(student) ==
  /\ ~isOpen
  /\ selectedStudent' = student
  /\ UNCHANGED <<allReportCards, selectedClass, auxVars, fee_structures, fee_payments,
                 selectedYearId, editingId, isOpen, toast>>

\* The payment form, which is rendered while a student is selected and the
\* feeStructure query has a row; fs is the row the query returned, amount the
\* text of the amount field, storageOk whether the insert comes back without
\* an error. A text that is not a number is sent as null and refused by the
\* NOT NULL column.
handleSubmit(fs, amount, storageOk) ==
  /\ ~isOpen
  /\ selectedStudent # 0
  /\ fs # 0
  /\ fs \in entryFeeStructures(selectedStudent)
  /\ IF amount = ""
     THEN /\ toast' = PaymentValidation
          /\ UNCHANGED <<fee_payments, selectedStudent>>
     ELSE IF ~storageOk \/ ParseFloat(amount).nan
     THEN /\ toast' = StorageError
          /\ UNCHANGED <<fee_payments, selectedStudent>>
     ELSE /\ Len(fee_payments) < MaxPayments
          /\ fee_payments' = Append(fee_payments,
               [student_id |-> selectedStudent, fee_structure_id |-> fs,
                amount_paid |-> ParseFloat(amount).value, status |-> "paid",
                academic_year_id |-> selectedYearId])
          /\ toast' = PaymentRecorded
          /\ selectedStudent' = 0
  /\ UNCHANGED <<allReportCards, selectedClass, auxVars, fee_structures, selectedYearId,
                 editingId, isOpen>>

NextBalance ==
  \/ \E tuitionFee \in {"100000", "300000"} :
       handleSave("B", tuitionFee, "", "", TRUE, TRUE)
  \/ openDialog
  \/ resetForm
  \/ \E y \in Years : setSelectedYearId(y)
  \/ \E student \in {1, 2} : handleStudentSelect(student)
  \/ \E fs \in 1..MaxStructures : \E amount \in {"", "100000", "50000"} :
       \E storageOk \in BOOLEAN : handleSubmit(fs, amount, storageOk)

\* Fee structures, payments and the balance views of one session.
SpecBalance == Init /\ [][NextBalance]_vars

\* C9: every fee structure that handleSave has written holds total_fee equal to
\* tuition_fee + exam_fee + other_fee, and amount equal to total_fee. (handleSave
\* is the only writer of these fields; handleDelete changes is_active alone.)
C9_TotalIsSumOfParts ==
  \A k \in 1..Len(fee_structures) :
    LET fs == fee_structures[k] IN
      /\ fs.total_fee = fs.tuition_fee + fs.exam_fee + fs.other_fee
      /\ fs.amount = fs.total_fee

\* A created row of two non-zero parts, and an updated one.
C9_Witness ==
  /\ toast = StructureUpdated
  /\ \E k \in 1..Len(fee_structures) :
       /\ fee_structures[k].tuition_fee = 50000
       /\ fee_structures[k].other_fee = 10000
       /\ fee_structures[k].total_fee = 60000
       /\ fee_structures[k].amount = 60000

\* C10: a create or an update whose parts sum to zero or less, with a class and
\* a year selected, ends in the invalid-total toast and leaves the store, the
\* dialog and the row being edited as they were.
C10_NonPositiveTotalRejected ==
  [][\A tuitionFee \in {"", "50000"} : \A otherFee \in {"10000", "-50000"} :
       \A checkOk \in BOOLEAN : \A storageOk \in BOOLEAN :
         ( /\ selectedYearId # ""
           /\ OrZero(ParseFloat(tuitionFee)) + OrZero(ParseFloat("abc"))
                + OrZero(ParseFloat(otherFee)) <= 0
           /\ handleSave("B", tuitionFee, "abc", otherFee, checkOk, storageOk) )
         => ( /\ toast' = InvalidTotal
              /\ fee_structures' = fee_structures
              /\ editingId' = editingId
              /\ isOpen' = isOpen )]_vars

\* An update of a stored row was rejected for its total.
C10_Witness ==
  /\ toast = InvalidTotal
  /\ editingId # 0
  /\ isOpen
  /\ Len(fee_structures) > 0

\* The sum of amount_paid over a set of rows of fee_payments.
RECURSIVE SumPaidOf(_)
SumPaidOf(rows) ==
  IF rows = {} THEN 0
  ELSE LET k == CHOOSE r \in rows : TRUE
       IN fee_payments[k].amount_paid + SumPaidOf(rows \ {k})

\* The payments of a student in the selected year.
MatchingPayments(id) ==
  {k \in 1..Len(fee_payments) :
     /\ fee_payments[k].student_id = id
     /\ fee_payments[k].academic_year_id = selectedYearId}

BalanceStudents == {1, 2}

\* C6: with a year selected, wherever a view has found the fee structure of the
\* student's class and year, its total paid is the sum of amount_paid over the
\* student's payments of that year, its total fee is the structure's total_fee,
\* its balance is total fee minus total paid, and it shows the balance as
\* settled (green) exactly when the balance is zero or less. This holds in the
\* student profile and in the payment entry form.
C6_BalanceIsFeeMinusPaid ==
  selectedYearId # "" =>
    \A id \in BalanceStudents :
      /\ profileFeeStructure(id) # 0 =>
           /\ profileTotalPaid(id) = SumPaidOf(MatchingPayments(id))
           /\ profileTotalFee(id) = fee_structures[profileFeeStructure(id)].total_fee
           /\ profileBalance(id) = profileTotalFee(id) - profileTotalPaid(id)
           /\ QuickStats(id).text = formatCurrency(profileBalance(id))
           /\ (QuickStats(id).className = "text-green-600") <=> (profileBalance(id) <= 0)
           /\ (FinanceTab(id).className = "text-green-600") <=> (profileBalance(id) <= 0)
      /\ \A fs \in entryFeeStructures(id) \ {0} :
           /\ entryTotalPaid(id) = SumPaidOf(MatchingPayments(id))
           /\ entryTotalFee(fs) = fee_structures[fs].total_fee
           /\ entryBalance(id, fs) = entryTotalFee(fs) - entryTotalPaid(id)
           /\ (FinanceEntryView(id, fs).className = "text-green-600")
                <=> (entryBalance(id, fs) <= 0)

\* The claim's instance: total_fee 300000 with payments 100000 and 50000 gives
\* 150000 paid and a balance of 150000 in red, in both views.
C6_Witness ==
  /\ selectedYearId # ""
  /\ selectedStudent = 2
  /\ profileFeeStructure(2) # 0
  /\ profileTotalFee(2) = 300000
  /\ Len(profilePayments(2)) = 2
  /\ profileTotalPaid(2) = 150000
  /\ profileBalance(2) = 150000
  /\ QuickStats(2).className = "text-red-600"
  /\ \E fs \in entryFeeStructures(selectedStudent) :
       FinanceEntryView(selectedStudent, fs).balance = formatCurrency(150000)

\* C7: when the payments of a student's year sum to more than the total fee of
\* the structure a view has found, the view's balance is the negative number
\* total fee minus total paid, shown as it is and not as zero, in the colour of
\* a settled balance.
C7_OverpaymentIsNegative ==
  selectedYearId # "" =>
    \A id \in BalanceStudents :
      /\ ( /\ profileFeeStructure(id) # 0
           /\ SumPaidOf(MatchingPayments(id))
                > fee_structures[profileFeeStructure(id)].total_fee )
         => /\ profileBalance(id) < 0
            /\ profileBalance(id) = fee_structures[profileFeeStructure(id)].total_fee
                                      - SumPaidOf(MatchingPayments(id))
            /\ QuickStats(id) = [text |-> <<"Le", profileBalance(id)>>,
                                 className |-> "text-green-600"]
            /\ FinanceTab(id).balance = <<"Le", profileBalance(id)>>
      /\ \A fs \in entryFeeStructures(id) \ {0} :
           SumPaidOf(MatchingPayments(id)) > fee_structures[fs].total_fee
           => /\ entryBalance(id, fs) < 0
              /\ entryBalance(id, fs) = fee_structures[fs].total_fee
                                          - SumPaidOf(MatchingPayments(id))
              /\ FinanceEntryView(id, fs).balance = <<"Le", entryBalance(id, fs)>>
              /\ FinanceEntryView(id, fs).className = "text-green-600"

\* Payments of 100000 and 50000 against a total fee of 100000: -50000.
C7_Witness ==
  /\ selectedStudent = 2
  /\ profileFeeStructure(2) # 0
  /\ profileTotalFee(2) = 100000
  /\ profileTotalPaid(2) = 150000
  /\ profileBalance(2) = -50000
  /\ \E fs \in entryFeeStructures(2) : entryBalance(2, fs) = -50000

\* The student has no active fee structure for the class and the selected year.
NoStructureState(id) ==
  /\ selectedYearId # ""
  /\ ActiveStructures(ClassOf(id), selectedYearId) = {}

\* The student's class has one active structure for the selected year and the
\* payments of that year sum to its total fee.
FullyPaidState(id) ==
  /\ selectedYearId # ""
  /\ Cardinality(ActiveStructures(ClassOf(id), selectedYearId)) = 1
  /\ \A k \in ActiveStructures(ClassOf(id), selectedYearId) :
       fee_structures[k].total_fee = SumPaidOf(MatchingPayments(id))

\* C8: a student in the no-structure state and a student in the fully-paid
\* state are never rendered the same way: the Balance line of the profile's
\* Quick Stats card, the summary of the profile's finance tab and the payment
\* entry form each differ between the two.
C8_NoStructureDistinctFromFullyPaid ==
  \A x \in BalanceStudents : \A y \in BalanceStudents :
    (NoStructureState(x) /\ FullyPaidState(y)) =>
      /\ QuickStats(x) # QuickStats(y)
      /\ FinanceTab(x) # FinanceTab(y)
      /\ \A fx \in entryFeeStructures(x) : \A fy \in entryFeeStructures(y) :
           FinanceEntryView(x, fx) # FinanceEntryView(y, fy)

\* C11: a create (no row being edited) with a positive total, whose lookup and
\* write come back without an error, appends the new active row and reports
\* the creation when the class has no active row for the selected year, and
\* reports the duplicate and leaves the store and the dialog as they were when
\* it has one.
C11_CreateGuardedByDuplicateCheck ==
  [][\A tuitionFee \in {"", "50000"} :
       LET tuition == OrZero(ParseFloat(tuitionFee))
           hasActive == \E k \in 1..Len(fee_structures) :
                          /\ fee_structures[k].class_id = "B"
                          /\ fee_structures[k].academic_year_id = selectedYearId
                          /\ fee_structures[k].is_active
       IN ( /\ selectedYearId # ""
            /\ editingId = 0
            /\ handleSave("B", tuitionFee, "abc", "10000", TRUE, TRUE) )
          => IF hasActive
             THEN /\ toast' = DuplicateStructure
                  /\ fee_structures' = fee_structures
                  /\ isOpen' = isOpen
             ELSE /\ toast' = StructureCreated
                  /\ fee_structures' = Append(fee_structures,
                       [class_id |-> "B", academic_year_id |-> selectedYearId,
                        tuition_fee |-> tuition, exam_fee |-> 0, other_fee |-> 10000,
                        total_fee |-> tuition + 10000, amount |-> tuition + 10000,
                        fee_type |-> "annual", is_active |-> TRUE])]_vars

\* A create was refused as a duplicate of the one active row of the class and
\* the selected year.
C11_Witness ==
  /\ toast = DuplicateStructure
  /\ editingId = 0
  /\ isOpen
  /\ selectedYearId # ""
  /\ Cardinality({k \in 1..Len(fee_structures) :
                    /\ fee_structures[k].class_id = "B"
                    /\ fee_structures[k].academic_year_id = selectedYearId
                    /\ fee_structures[k].is_active}) = 1

\* The academic year switcher of the header, which the open dialog covers.
switchYear(y) ==
  /\ ~isOpen
  /\ setSelectedYearId(y)

NextManage ==
  \/ \E classId \in Classes : \E tuitionFee \in {"", "50000"} :
       handleSave(classId, tuitionFee, "abc", "10000", TRUE, TRUE)
  \/ \E id \in 1..MaxStructures : handleEdit(id)
  \/ \E id \in 1..MaxStructures : handleDelete(id, TRUE)
  \/ openDialog
  \/ resetForm
  \/ \E y \in Years : switchYear(y)

\* The fee structure manager of one session over both classes, with every
\* lookup and write answered and the year switched only outside the dialog.
SpecManage == Init /\ [][NextManage]_vars

\* C12: there is at most one active fee structure per class and academic year.
C12_AtMostOneActivePerClassYear ==
  \A classId \in Classes : \A yearId \in Years :
    Cardinality({k \in 1..Len(fee_structures) :
                   /\ fee_structures[k].class_id = classId
                   /\ fee_structures[k].academic_year_id = yearId
                   /\ fee_structures[k].is_active}) <= 1

(* ---------------- Academic years: AcademicYearProvider and Settings ---------------- *)

\* The ids an academic year may carry in the settings view.
SettingsYears == {"Y1", "Y2", "Y3"}

YearAdded == "Academic year added"
YearUpdated == "Academic year updated"
YearRemoved == "Academic year removed"
ActiveYearUpdated == "Active academic year updated"

YearRow(id) == CHOOSE y \in academic_years : y.id = id
YearIds == {y.id : y \in academic_years}

\* A year that a fee structure or a payment refers to cannot be deleted.
YearReferenced(id) ==
  \/ \E k \in 1..Len(fee_structures) : fee_structures[k].academic_year_id = id
  \/ \E k \in 1..Len(fee_payments) : fee_payments[k].academic_year_id = id

\* Settings.handleAddYear with createYear: inserts a year, inactive by default.
handleAddYear(id, storageOk) ==
  /\ activating = ""
  /\ id \notin YearIds
  /\ IF storageOk
     THEN /\ academic_years' = academic_years \cup {[id |-> id, is_active |-> FALSE]}
          /\ toast' = YearAdded
     ELSE /\ toast' = StorageError
          /\ UNCHANGED academic_years
  /\ UNCHANGED <<allReportCards, selectedClass, fee_structures, fee_payments,
                 selectedYearId, editingId, isOpen, selectedStudent, activating,
                 gradeSaves, rendered, inFlight,
                 attendance>>

\* Settings.handleUpdateYear with updateYear: writes the name alone.
handleUpdateYear(id, storageOk) ==
  /\ activating = ""
  /\ id \in YearIds
  /\ toast' = IF storageOk THEN YearUpdated ELSE StorageError
  /\ UNCHANGED <<allReportCards, selectedClass, fee_structures, fee_payments,
                 selectedYearId, editingId, isOpen, selectedStudent, auxVars>>

\* Settings.handleDeleteYear with deleteYear; the bin is shown for years that
\* are not active.
handleDeleteYear(id, storageOk) ==
  /\ activating = ""
  /\ id \in YearIds
  /\ ~YearRow(id).is_active
  /\ IF storageOk /\ ~YearReferenced(id)
     THEN /\ academic_years' = academic_years \ {YearRow(id)}
          /\ toast' = YearRemoved
     ELSE /\ toast' = StorageError
          /\ UNCHANGED academic_years
  /\ UNCHANGED <<allReportCards, selectedClass, fee_structures, fee_payments,
                 selectedYearId, editingId, isOpen, selectedStudent, activating,
                 gradeSaves, rendered, inFlight,
                 attendance>>

\* Settings.handleSetActive, first await of setActiveYearFn: the update that
\* deactivates every year. Its result is not looked at; firstOk says whether
\* the store carried it out.
setActiveYearDeactivate(id, firstOk) ==
  /\ activating = ""
  /\ id \in YearIds
  /\ ~YearRow(id).is_active
  /\ academic_years' = IF firstOk
                       THEN {[id |-> y.id, is_active |-> FALSE] : y \in academic_years}
                       ELSE academic_years
  /\ activating' = id
  /\ UNCHANGED <<allReportCards, selectedClass, fee_structures, fee_payments,
                 selectedYearId, editingId, isOpen, toast, selectedStudent, gradeSaves, rendered, inFlight,
                 attendance>>

\* Second await of setActiveYearFn: the update that activates the chosen year,
\* then setSelectedYearId and the toast; an error of this update is thrown and
\* reported.
setActiveYearActivate(secondOk) ==
  /\ activating # ""
  /\ IF secondOk
     THEN /\ academic_years' = {[id |-> y.id,
                                 is_active |-> IF y.id = activating THEN TRUE
                                               ELSE y.is_active] : y \in academic_years}
          /\ selectedYearId' = activating
          /\ toast' = ActiveYearUpdated
     ELSE /\ toast' = StorageError
          /\ UNCHANGED <<academic_years, selectedYearId>>
  /\ activating' = ""
  /\ UNCHANGED <<allReportCards, selectedClass, fee_structures, fee_payments,
                 editingId, isOpen, selectedStudent, gradeSaves, rendered, inFlight,
                 attendance>>

NextYears ==
  \/ \E id \in SettingsYears : \E storageOk \in BOOLEAN : handleAddYear(id, storageOk)
  \/ \E id \in SettingsYears : \E storageOk \in BOOLEAN : handleUpdateYear(id, storageOk)
  \/ \E id \in SettingsYears : \E storageOk \in BOOLEAN : handleDeleteYear(id, storageOk)
  \/ \E id \in SettingsYears : \E firstOk \in BOOLEAN : setActiveYearDeactivate(id, firstOk)
  \/ \E secondOk \in BOOLEAN : setActiveYearActivate(secondOk)

\* The academic years of the settings view, from the seeded store.
SpecYears == Init /\ [][NextYears]_vars

\* C13: exactly one academic year is active.
C13_ExactlyOneActiveYear ==
  Cardinality({y \in academic_years : y.is_active}) = 1

(* ---------------- Score saves step by step: ReportCards Save button ---------------- *)

\* parseInt over the texts the score field receives in the model: the integer a
\* text starts with, read up to the first character that is not a digit, and
\* NaN for the empty text and for text that starts with no integer.
ParseInt(text) ==
  CASE text = "5" -> [nan |-> FALSE, value |-> 5]
    [] text = "100" -> [nan |-> FALSE, value |-> 100]
    [] text = "100.5" -> [nan |-> FALSE, value |-> 100]
    [] text = "101" -> [nan |-> FALSE, value |-> 101]
    [] text = "-5" -> [nan |-> FALSE, value |-> -5]
    [] text = "-0.5" -> [nan |-> FALSE, value |-> 0]
    [] OTHER -> [nan |-> TRUE, value |-> 0]

InvalidScore == "Score must be 0-100"
ScoreSaved == "Score saved successfully"
SaveFailed == "Failed to save score"

\* A variant of KeyStored for a table without the unique constraint.
ConstraintAbsent(s, j) == FALSE
\* unique_student_subject_term_year: the key of an insert is already stored.
KeyStored(s, j) == RowIndex(s, j) # 0

\* The Save button of a subject row, up to the first await of the mutation:
\* the score is parsed and range-checked, then the lookup of the key's row is
\* answered (with no row when lookupOk is false, its error being ignored).
saveClick(session, s, n, text, lookupOk) ==
  LET score == ParseInt(text)
      j == SubjectsOf(ClassOf(s))[n]
  IN /\ ~gradeSaves[session].pending
     /\ IF ~score.nan /\ score.value >= 0 /\ score.value <= 100
        THEN /\ gradeSaves' = [gradeSaves EXCEPT ![session] =
                  [pending |-> TRUE, student_id |-> s, subject_id |-> j,
                   score |-> score.value,
                   existing |-> IF lookupOk THEN RowIndex(s, j) ELSE 0]]
             /\ UNCHANGED toast
        ELSE /\ toast' = InvalidScore
             /\ UNCHANGED gradeSaves
     /\ UNCHANGED <<allReportCards, selectedClass, fee_structures, fee_payments,
                    selectedYearId, editingId, isOpen, selectedStudent,
                    academic_years, activating, rendered,
                 inFlight, attendance>>

\* The rest of the mutation: update of the row found, or insert, which the
\* unique constraint refuses when the key is stored by then; onSuccess and
\* onError report the outcome.
gradeWrite(session, storageOk) ==
  LET p == gradeSaves[session] IN
  /\ p.pending
  /\ IF p.existing # 0
     THEN IF storageOk
          THEN /\ allReportCards' = [allReportCards EXCEPT ![p.existing].score = p.score]
               /\ toast' = ScoreSaved
          ELSE /\ toast' = SaveFailed
               /\ UNCHANGED allReportCards
     ELSE IF storageOk /\ ~KeyStored(p.student_id, p.subject_id)
          THEN /\ allReportCards' = Append(allReportCards,
                    [student_id |-> p.student_id, subject_id |-> p.subject_id,
                     score |-> p.score])
               /\ toast' = ScoreSaved
          ELSE /\ toast' = SaveFailed
               /\ UNCHANGED allReportCards
  /\ gradeSaves' = [gradeSaves EXCEPT ![session] = NoSave]
  /\ UNCHANGED <<selectedClass, fee_structures, fee_payments, selectedYearId,
                 editingId, isOpen, selectedStudent, academic_years, activating, rendered,
                 inFlight, attendance>>

NextSave ==
  \/ \E session \in Sessions : \E s \in {1, 2} :
       \E n \in 1..Len(SubjectsOf(ClassOf(s))) :
         \E text \in {"abc", "5", "100", "100.5", "-5"} :
           saveClick(session, s, n, text, TRUE)
  \/ \E session \in Sessions : \E storageOk \in BOOLEAN : gradeWrite(session, storageOk)

\* Two sessions saving scores, each save in its two steps.
SpecSave == Init /\ [][NextSave]_vars

\* No two rows of report_cards carry the same student and subject (the term
\* and the year are those of the page).
UniqueReportKeys ==
  \A k1 \in 1..Len(allReportCards) : \A k2 \in 1..Len(allReportCards) :
    ( /\ allReportCards[k1].student_id = allReportCards[k2].student_id
      /\ allReportCards[k1].subject_id = allReportCards[k2].subject_id ) => k1 = k2

\* C14: every step of a score save, whatever the other session does between
\* its lookup and its write, leaves at most one report card per student and
\* subject: the write of a save whose lookup found the row sets that row's
\* score and nothing else, the write of a save for a key that is still absent
\* appends one row, and the write of a save whose key has been stored in the
\* meantime fails with the error and stores nothing.
C14_OneReportCardPerKey ==
  [][/\ UniqueReportKeys'
     /\ \A session \in Sessions :
          gradeWrite(session, TRUE) =>
            LET p == gradeSaves[session]
                stored == \E k \in 1..Len(allReportCards) :
                            /\ allReportCards[k].student_id = p.student_id
                            /\ allReportCards[k].subject_id = p.subject_id
            IN IF p.existing # 0
               THEN /\ allReportCards' =
                         [allReportCards EXCEPT ![p.existing].score = p.score]
                    /\ allReportCards[p.existing].student_id = p.student_id
                    /\ allReportCards[p.existing].subject_id = p.subject_id
                    /\ toast' = ScoreSaved
               ELSE IF stored
               THEN /\ allReportCards' = allReportCards
                    /\ toast' = SaveFailed
               ELSE /\ allReportCards' = Append(allReportCards,
                         [student_id |-> p.student_id, subject_id |-> p.subject_id,
                          score |-> p.score])
                    /\ toast' = ScoreSaved]_vars

\* Two saves for the same new key looked up before either wrote: one has
\* stored its row, the other is about to insert a row for a key it found absent.
C14_Witness ==
  \E session \in Sessions :
    /\ gradeSaves[session].pending
    /\ gradeSaves[session].existing = 0
    /\ \E k \in 1..Len(allReportCards) :
         /\ allReportCards[k].student_id = gradeSaves[session].student_id
         /\ allReportCards[k].subject_id = gradeSaves[session].subject_id

(* ---------------- Subject statistics: ReportCards subjectAnalytics ---------------- *)

\* Students that hold report cards where the statistics are checked.
NumStatStudents == 4

\* subjectMap: one entry per subject of the class's rows, in the order the
\* subjects first appear, with the scores pushed in row order.
IndexOfSubject(map, j) ==
  IF \E k \in 1..Len(map) : map[k].subject = j
  THEN CHOOSE k \in 1..Len(map) : map[k].subject = j
  ELSE 0

SubjectMap(reports) ==
  LET F[i \in 0..Len(reports)] ==
        IF i = 0 THEN <<>>
        ELSE LET r == reports[i]
                 m == F[i-1]
                 k == IndexOfSubject(m, r.subject_id)
                 m1 == IF k = 0
                       THEN Append(m, [subject |-> r.subject_id, scores |-> <<>>])
                       ELSE m
                 k1 == IF k = 0 THEN Len(m1) ELSE k
             IN [m1 EXCEPT ![k1].scores = Append(@, r.score)]
  IN F[Len(reports)]

\* s.scores.reduce((a, b) => a + b, 0)
SumOfScores(scores) ==
  LET F[i \in 0..Len(scores)] == IF i = 0 THEN 0 ELSE F[i-1] + scores[i]
  IN F[Len(scores)]

\* Math.max(...s.scores)
MathMax(scores) == CHOOSE x \in {scores[i] : i \in 1..Len(scores)} :
                     \A i \in 1..Len(scores) : scores[i] <= x

\* A variant of MathMin that takes the first score.
FirstScore(scores) == scores[1]
\* Math.min(...s.scores)
MathMin(scores) == CHOOSE x \in {scores[i] : i \in 1..Len(scores)} :
                     \A i \in 1..Len(scores) : scores[i] >= x

\* Object.values(subjectMap).map(...): the statistics of each subject. The
\* subject's name stands for the subject.
SubjectStatsOf(map) ==
  [k \in 1..Len(map) |->
     [name |-> map[k].subject,
      average |-> MathRound(SumOfScores(map[k].scores), Len(map[k].scores)),
      highest |-> MathMax(map[k].scores),
      lowest |-> MathMin(map[k].scores),
      count |-> Len(map[k].scores)]]

\* useMemo subjectAnalytics
subjectAnalytics ==
  IF selectedClass = "" THEN <<>>
  ELSE SortByAverageDesc(SubjectStatsOf(SubjectMap(
         classReports(allReportCards, selectedClass))))

NextStats ==
  \/ \E s \in 1..NumStatStudents : \E n \in 1..Len(SubjectsOf(ClassOf(s))) :
       \E score \in Scores : gradeMutation(s, n, score)
  \/ \E c \in Classes : setSelectedClass(c)

\* The report-card page over a small roster, for the statistics of a class.
SpecStats == Init /\ [][NextStats]_vars

\* The rows of a class and a subject.
ClassSubjectRows(c, j) ==
  {k \in 1..Len(allReportCards) :
     /\ ClassOf(allReportCards[k].student_id) = c
     /\ allReportCards[k].subject_id = j}

C16_EmptyInEmptyOut ==
  LET cl == classLeaderboard
      sl == schoolLeaderboard
      sa == subjectAnalytics
      classRows == {k \in 1..Len(allReportCards) :
                      ClassOf(allReportCards[k].student_id) = selectedClass}
  IN /\ classRows = {} => (cl = <<>> /\ sa = <<>>)
     /\ allReportCards = <<>> => sl = <<>>
     /\ \A i \in 1..Len(cl) :
          /\ cl[i].count >= 1
          /\ \E k \in classRows : allReportCards[k].student_id = cl[i].student
     /\ \A i \in 1..Len(sl) :
          /\ sl[i].count >= 1
          /\ \E k \in 1..Len(allReportCards) : allReportCards[k].student_id = sl[i].student
     /\ \A i \in 1..Len(sa) : sa[i].count >= 1

\* Class B is selected and has no row, while class A has rows.
C16_Witness ==
  /\ selectedClass = "B"
  /\ Len(allReportCards) = 2
  /\ \A k \in 1..Len(allReportCards) : ClassOf(allReportCards[k].student_id) = "A"
  /\ classLeaderboard = <<>>
  /\ subjectAnalytics = <<>>
  /\ Len(schoolLeaderboard) = 1

\* A write to report_cards that does not come from the score entry form: the
\* column is score NUMERIC without a range check and the policy lets every
\* authenticated client write, so the store takes any number. The key is
\* updated when it is stored and inserted otherwise.
storeWrite(s, n, score) ==
  LET j == SubjectsOf(ClassOf(s))[n]
      k == RowIndex(s, j)
  IN /\ IF k > 0
        THEN allReportCards' = [allReportCards EXCEPT ![k].score = score]
        ELSE /\ NextKeyInOrder(s, n)
             /\ allReportCards' =
                  Append(allReportCards, [student_id |-> s, subject_id |-> j, score |-> score])
     /\ UNCHANGED <<selectedClass, feeVars, auxVars>>

NextForeign ==
  \/ \E s \in 1..NumStatStudents : \E n \in 1..Len(SubjectsOf(ClassOf(s))) :
       \E score \in Scores : gradeMutation(s, n, score)
  \/ \E s \in 1..NumStatStudents : \E n \in 1..Len(SubjectsOf(ClassOf(s))) :
       \E score \in {-5, 105} : storeWrite(s, n, score)
  \/ \E c \in Classes : setSelectedClass(c)

\* The report-card page over a store that other clients write to as well.
SpecForeign == Init /\ [][NextForeign]_vars

\* The rows whose score lies in 0..100.
InRangeRows == {k \in 1..Len(allReportCards) :
                  allReportCards[k].score >= 0 /\ allReportCards[k].score <= 100}

\* C17: a row whose score lies outside 0..100 is left out of every aggregate:
\* the total and the count of each leaderboard entry are those of the student's
\* rows in range, and the count of each subject's statistics is that of the
\* subject's rows in range.
C17_OutOfRangeExcluded ==
  LET cl == classLeaderboard
      sl == schoolLeaderboard
      sa == subjectAnalytics
  IN /\ \A i \in 1..Len(cl) :
          /\ cl[i].count = Cardinality(RowsOf(cl[i].student) \cap InRangeRows)
          /\ cl[i].totalScore = SumScoresOf(RowsOf(cl[i].student) \cap InRangeRows)
     /\ \A i \in 1..Len(sl) :
          /\ sl[i].count = Cardinality(RowsOf(sl[i].student) \cap InRangeRows)
          /\ sl[i].totalScore = SumScoresOf(RowsOf(sl[i].student) \cap InRangeRows)
     /\ \A i \in 1..Len(sa) :
          sa[i].count = Cardinality(ClassSubjectRows(selectedClass, sa[i].name)
                                      \cap InRangeRows)

\* The number a text of the score field denotes, in tenths, and whether it
\* denotes one at all.
DenotedTenths(text) ==
  CASE text = "5" -> [number |-> TRUE, tenths |-> 50]
    [] text = "100" -> [number |-> TRUE, tenths |-> 1000]
    [] text = "100.5" -> [number |-> TRUE, tenths |-> 1005]
    [] text = "-5" -> [number |-> TRUE, tenths |-> -50]
    [] OTHER -> [number |-> FALSE, tenths |-> 0]

\* C18: a click on Save starts a save exactly when the text of the score field
\* denotes a number from 0 to 100; for every other text it shows the
\* invalid-score toast, starts no save and leaves the stored report cards as
\* they are.
C18_OnlyScoresInRangeAreSaved ==
  [][\A session \in Sessions : \A s \in {1, 2} :
       \A n \in 1..Len(SubjectsOf(ClassOf(s))) :
         \A text \in {"abc", "5", "100", "100.5", "-5"} :
           saveClick(session, s, n, text, TRUE) =>
             IF /\ DenotedTenths(text).number
                /\ DenotedTenths(text).tenths >= 0
                /\ DenotedTenths(text).tenths <= 1000
             THEN /\ gradeSaves'[session].pending
                  /\ gradeSaves'[session].score * 10 = DenotedTenths(text).tenths
             ELSE /\ toast' = InvalidScore
                  /\ gradeSaves' = gradeSaves
                  /\ allReportCards' = allReportCards]_vars

(* ---------------- Renders: the derived views as computations ---------------- *)

\* What the leaderboards and the statistics are computed from.
RankingInputs == <<allReportCards, selectedClass>>
\* What the balance of a student is computed from.
BalanceInputs == <<fee_structures, fee_payments, selectedYearId>>

\* The students whose scores are entered while the views are rendered.
NumRenderStudents == 3

\* The students whose profile is rendered.
ProfileStudents == {1, 2}

\* A variant of render whose rank assignment writes to the fetched rows
\* (r.rank = index + 1) instead of the copies made by map.
renderWritingRank ==
  /\ allReportCards' =
       [k \in 1..Len(allReportCards) |->
          [student_id |-> allReportCards[k].student_id,
           subject_id |-> allReportCards[k].subject_id,
           score |-> allReportCards[k].score,
           rank |-> k]]
  /\ rendered' = [done |-> TRUE,
                  rankingInputs |-> RankingInputs,
                  balanceInputs |-> BalanceInputs,
                  classLeaderboard |-> classLeaderboard,
                  schoolLeaderboard |-> schoolLeaderboard,
                  subjectAnalytics |-> subjectAnalytics,
                  balance |-> [id \in ProfileStudents |-> profileBalance(id)],
                  quickStats |-> [id \in ProfileStudents |-> QuickStats(id)],
                  financeTab |-> [id \in ProfileStudents |-> FinanceTab(id)]]
  /\ UNCHANGED <<fee_structures, fee_payments>>
  /\ UNCHANGED <<selectedClass, selectedYearId, editingId, isOpen, toast,
                 selectedStudent, academic_years, activating, gradeSaves,
                 inFlight, attendance>>

\* A render of the report-card page and of the student profiles: the useMemo
\* blocks and the balance constants are evaluated and their values shown.
\* Every write of the evaluation goes to an object made during it: the entries
\* of studentMap and subjectMap (totalScore, count, scores), the copies made by
\* map (average, rank), the arrays made by Object.values, map and slice (sort
\* is applied to the array map returned). No element of allReportCards,
\* payments or feeStructure is assigned to.
render ==
  /\ rendered' = [done |-> TRUE,
                  rankingInputs |-> RankingInputs,
                  balanceInputs |-> BalanceInputs,
                  classLeaderboard |-> classLeaderboard,
                  schoolLeaderboard |-> schoolLeaderboard,
                  subjectAnalytics |-> subjectAnalytics,
                  balance |-> [id \in ProfileStudents |-> profileBalance(id)],
                  quickStats |-> [id \in ProfileStudents |-> QuickStats(id)],
                  financeTab |-> [id \in ProfileStudents |-> FinanceTab(id)]]
  /\ UNCHANGED <<allReportCards, fee_structures, fee_payments>>
  /\ UNCHANGED <<selectedClass, selectedYearId, editingId, isOpen, toast,
                 selectedStudent, academic_years, activating, gradeSaves,
                 inFlight, attendance>>

NextRender ==
  \/ \E s \in 1..NumRenderStudents : \E n \in 1..Len(SubjectsOf(ClassOf(s))) :
       gradeMutation(s, n, 100)
  \/ \E c \in Classes : setSelectedClass(c)
  \/ handleSave("B", "100000", "", "", TRUE, TRUE)
  \/ openDialog
  \/ resetForm
  \/ switchYear("Y1")
  \/ handleStudentSelect(2)
  \/ \E fs \in 1..MaxStructures : handleSubmit(fs, "50000", TRUE)
  \/ render

\* The report-card page, the fee structures and the payments of one session,
\* with the renders of the derived views.
SpecRender == Init /\ [][NextRender]_vars

(* ---------------- C19: the derived views are functions of the snapshot ---------------- *)

SaveErrors == {MissingSelection, InvalidTotal, DuplicateStructure, StorageError}

\* C21: every failure of the fee-structure save ends in an error message and
\* leaves the store alone: when the class or the year is missing, when the
\* total is not above zero, when a create meets an active structure of the
\* class and year, or when the insert or update comes back with an error, the
\* click ends with one of the four error toasts, nothing escapes the handler
\* unreported, the dialog stays open on the same row, and fee_structures is
\* what it was.
C21_SaveFailuresAreReported ==
  [][\A classId \in {"", "B"} : \A otherFee \in {"10000", "-50000"} :
       \A storageOk \in BOOLEAN :
         LET missing == classId = "" \/ selectedYearId = ""
             total == 50000 + (IF otherFee = "10000" THEN 10000 ELSE 0 - 50000)
             duplicate == /\ editingId = 0
                          /\ \E k \in 1..Len(fee_structures) :
                               /\ fee_structures[k].class_id = classId
                               /\ fee_structures[k].academic_year_id = selectedYearId
                               /\ fee_structures[k].is_active
             failure == missing \/ total <= 0 \/ duplicate \/ ~storageOk
         IN (failure /\ handleSave(classId, "50000", "abc", otherFee, TRUE, storageOk)) =>
              /\ toast' \in SaveErrors
              /\ missing => toast' = MissingSelection
              /\ (~missing /\ total <= 0) => toast' = InvalidTotal
              /\ (~missing /\ total > 0 /\ duplicate) => toast' = DuplicateStructure
              /\ (~missing /\ total > 0 /\ ~duplicate) => toast' = StorageError
              /\ fee_structures' = fee_structures
              /\ isOpen' /\ editingId' = editingId]_vars

\* C21 witness: the insert of the first fee structure has just failed in the
\* store: the error is shown, the create dialog is still open, and the table is
\* empty (no row was ever there to be deactivated, so the error is the save's).
C21_Witness ==
  /\ toast = StorageError
  /\ isOpen
  /\ editingId = 0
  /\ selectedYearId # ""
  /\ fee_structures = <<>>

(* ---------------- The payment form and its amount field ---------------- *)

\* A variant of AmountFieldValid without the min="0" attribute.
AmountFieldWithoutMin(text) == text # "" /\ ~ParseFloat(text).nan

\* <Input id="amount" type="number" step="0.01" min="0" ... required />: the
\* browser's constraint validation of the amount field. The field must hold
\* text (required), the text must be a number (type="number"), and the number
\* must not be below 0 (min); the amounts of the model are whole, so step holds.
AmountFieldValid(text) ==
  /\ text # ""
  /\ ~ParseFloat(text).nan
  /\ ParseFloat(text).value >= 0

\* The Record Payment button (type="submit") of <form onSubmit={handleSubmit}>:
\* the browser validates the fields and fires the submit event only when they
\* are valid; otherwise it shows its own hint and the handler is not called.
submitPaymentForm(fs, amount, storageOk) ==
  /\ AmountFieldValid(amount)
  /\ handleSubmit(fs, amount, storageOk)

NextPay ==
  \/ handleSave("B", "100000", "", "", TRUE, TRUE)
  \/ openDialog
  \/ resetForm
  \/ \E y \in Years : switchYear(y)
  \/ \E student \in {1, 2} : handleStudentSelect(student)
  \/ \E fs \in 1..MaxStructures : \E amount \in {"", "abc", "-50000", "50000"} :
       \E storageOk \in BOOLEAN : submitPaymentForm(fs, amount, storageOk)

\* Fee structures of class B and the payment form of one session.
SpecPay == Init /\ [][NextPay]_vars

(* ---------------- C22: recorded amounts are not negative ---------------- *)

\* C22: every payment recorded through the payment form has a number >= 0 as
\* amount_paid: whatever text the amount field holds when Record Payment is
\* pressed (nothing, text that is no number, a negative number, a positive
\* number), every row of fee_payments holds an amount that is an integer of the
\* model and is not below 0.
C22_RecordedAmountsNotNegative ==
  \A k \in 1..Len(fee_payments) :
    /\ fee_payments[k].amount_paid \in Int
    /\ fee_payments[k].amount_paid >= 0

\* C22 witness: two payments of 50000 have been recorded for student 2 and the
\* form is open on that student again.
C22_Witness ==
  /\ Len(fee_payments) = 2
  /\ \A k \in 1..2 : fee_payments[k].amount_paid = 50000 /\ fee_payments[k].student_id = 2
  /\ selectedStudent = 2
  /\ toast = PaymentRecorded

(* ---------------- Two sessions creating fee structures ---------------- *)

\* handleSave of a create (editingId = null) in one of two sessions, up to the
\* answer of its duplicate lookup. The session has classId and tuitionFee in
\* its form and the year of the switcher selected; these are the handler's
\* from the click on. A lookup that finds an active row ends the handler with
\* the duplicate message; otherwise the handler goes on to its insert.
handleSaveLookup(session, classId, tuitionFee) ==
  LET tuition == OrZero(ParseFloat(tuitionFee))
      total == TotalOf(tuition, 0, 0)
  IN /\ inFlight[session] = Idle
     /\ classId # "" /\ selectedYearId # ""
     /\ ~TotalIsInvalid(total)
     /\ IF ActiveExists(classId, selectedYearId)
        THEN /\ toast' = DuplicateStructure
             /\ UNCHANGED inFlight
        ELSE /\ inFlight' = [inFlight EXCEPT ![session] =
                  [handler |-> "handleSave",
                   row |-> payload(classId, tuition, 0, 0, total)]]
             /\ UNCHANGED toast
     /\ UNCHANGED <<allReportCards, selectedClass, fee_structures, fee_payments,
                    selectedYearId, editingId, isOpen, selectedStudent, academic_years,
                    activating, gradeSaves, rendered, attendance>>

\* The insert of that handler, with its toast. The table has no constraint on
\* (class_id, academic_year_id), so the store accepts every row it is sent.
handleSaveInsert(session, storageOk) ==
  /\ inFlight[session] # Idle
  /\ inFlight[session].handler = "handleSave"
  /\ IF storageOk
     THEN /\ Len(fee_structures) < MaxStructures
          /\ fee_structures' = Append(fee_structures, inFlight[session].row)
          /\ toast' = StructureCreated
     ELSE /\ toast' = StorageError
          /\ UNCHANGED fee_structures
  /\ inFlight' = [inFlight EXCEPT ![session] = Idle]
  /\ UNCHANGED <<allReportCards, selectedClass, fee_payments, selectedYearId, editingId,
                 isOpen, selectedStudent, academic_years, activating, gradeSaves,
                 rendered, attendance>>

\* The switcher of the header, while no create is under way.
switchYearIdle(y) ==
  /\ \A session \in Sessions : inFlight[session] = Idle
  /\ setSelectedYearId(y)

NextCreate ==
  \/ \E session \in Sessions : \E classId \in Classes : \E tuitionFee \in {"50000", "100000"} :
       handleSaveLookup(session, classId, tuitionFee)
  \/ \E session \in Sessions : \E storageOk \in BOOLEAN : handleSaveInsert(session, storageOk)
  \/ \E y \in Years : switchYearIdle(y)

\* Two sessions that create fee structures for the year they have selected.
SpecCreate == Init /\ [][NextCreate]_vars

(* ---------------- C23: concurrent creates for one class and year ---------------- *)

\* C23: when two sessions create a fee structure for the same class and year at
\* the same time, at most one of the creates succeeds: no two different rows of
\* fee_structures are active for the same class_id and academic_year_id.
C23_AtMostOneConcurrentCreateSucceeds ==
  \A i \in 1..Len(fee_structures) : \A k \in 1..Len(fee_structures) :
    ( /\ i # k
      /\ fee_structures[i].is_active /\ fee_structures[k].is_active
      /\ fee_structures[i].class_id = fee_structures[k].class_id )
    => fee_structures[i].academic_year_id # fee_structures[k].academic_year_id

(* ---------------- Two sessions setting the active year ---------------- *)

\* setActiveYearFn in one of two sessions, first await: the update that
\* deactivates every year, for a year the list shows as not active.
setActiveYearFirst(session, id) ==
  /\ inFlight[session] = Idle
  /\ activating = ""
  /\ id \in YearIds
  /\ ~YearRow(id).is_active
  /\ academic_years' = {[id |-> y.id, is_active |-> FALSE] : y \in academic_years}
  /\ inFlight' = [inFlight EXCEPT ![session] = [handler |-> "setActiveYear", id |-> id]]
  /\ UNCHANGED <<allReportCards, selectedClass, fee_structures, fee_payments,
                 selectedYearId, editingId, isOpen, toast, selectedStudent, activating,
                 gradeSaves, rendered, attendance>>

\* Second await of that call: the update that activates the year of the call;
\* then the session selects the year (selectedYearId is the selection of the
\* session that returned last) and reports.
setActiveYearSecond(session) ==
  /\ inFlight[session] # Idle
  /\ inFlight[session].handler = "setActiveYear"
  /\ academic_years' = {[id |-> y.id,
                         is_active |-> IF y.id = inFlight[session].id THEN TRUE
                                       ELSE y.is_active] : y \in academic_years}
  /\ selectedYearId' = inFlight[session].id
  /\ toast' = ActiveYearUpdated
  /\ inFlight' = [inFlight EXCEPT ![session] = Idle]
  /\ UNCHANGED <<allReportCards, selectedClass, fee_structures, fee_payments,
                 editingId, isOpen, selectedStudent, activating, gradeSaves, rendered,
                 attendance>>

NextActivate ==
  \/ \E id \in SettingsYears : handleAddYear(id, TRUE)
  \/ \E session \in Sessions : \E id \in SettingsYears : setActiveYearFirst(session, id)
  \/ \E session \in Sessions : setActiveYearSecond(session)

\* Two sessions on the settings view that add years and set the active year,
\* every write of theirs carried out.
SpecActivate == Init /\ [][NextActivate]_vars

(* ---------------- C24: concurrent setActiveYear calls ---------------- *)

\* C24: when two sessions call setActiveYear at the same time, exactly one
\* academic year is active once both calls have completed: in every state in
\* which no call is between its two updates, one year and only one has
\* is_active = true.
C24_OneActiveYearAfterConcurrentCalls ==
  (\A session \in Sessions : inFlight[session] = Idle) =>
    \E y \in academic_years :
      /\ y.is_active
      /\ \A z \in academic_years : z.is_active => z = y

(* ---------------- C25: carry-forward ranks are competition ranks ---------------- *)

\* C25: the rank of a leaderboard entry is 1 plus the number of entries with a
\* strictly greater average, in the class and in the school leaderboard, so
\* entries with equal averages have one rank however many of them there are.
C25_RankCountsGreaterAverages ==
  LET Competition(lb) ==
        /\ \A i \in 1..Len(lb) :
             lb[i].rank = 1 + Cardinality({k \in 1..Len(lb) : lb[k].average > lb[i].average})
        /\ \A i \in 1..Len(lb) : \A k \in 1..Len(lb) :
             lb[i].average = lb[k].average => lb[i].rank = lb[k].rank
  IN Competition(classLeaderboard) /\ Competition(schoolLeaderboard)

\* C25 witness: three students of class B share the highest average and the
\* rank 1, and in the school leaderboard the student after them has rank 4.
C25_Witness ==
  /\ selectedClass = "B"
  /\ Averages(classLeaderboard) = <<100, 100, 100>>
  /\ Ranks(classLeaderboard) = <<1, 1, 1>>
  /\ Averages(schoolLeaderboard) = <<100, 100, 100, 5>>
  /\ Ranks(schoolLeaderboard) = <<1, 1, 1, 4>>

(* ---------------- C26: a duplicate lookup that fails ---------------- *)

\* C26: the duplicate guard fails closed: when the duplicate lookup of a create
\* comes back with an error, no fee structure is inserted, so a Create click
\* whose lookup failed leaves fee_structures as it was.
C26_FailedLookupInsertsNothing ==
  [][(editingId = 0 /\ handleSave("B", "50000", "abc", "10000", FALSE, TRUE))
       => fee_structures' = fee_structures]_vars

(* ---------------- C27: what a recorded payment refers to ---------------- *)

\* C27: a payment is recorded only when a fee structure is loaded for the class
\* of the selected student and the selected year, and the row says so: every
\* step that changes fee_payments appends exactly one row, a student and a year
\* are selected, and the row holds that student, that year, the id of an active
\* structure of the student's class and that year, the status 'paid' and a
\* number read from the amount field. (So with no student, no amount or no such
\* structure, fee_payments stays as it is.)
C27_PaymentRefersToLoadedStructure ==
  [][fee_payments' # fee_payments =>
       /\ selectedStudent # 0
       /\ selectedYearId # ""
       /\ Len(fee_payments') = Len(fee_payments) + 1
       /\ SubSeq(fee_payments', 1, Len(fee_payments)) = fee_payments
       /\ LET row == fee_payments'[Len(fee_payments')]
          IN /\ row.student_id = selectedStudent
             /\ row.academic_year_id = selectedYearId
             /\ row.status = "paid"
             /\ row.amount_paid = 50000
             /\ row.fee_structure_id \in 1..Len(fee_structures)
             /\ fee_structures[row.fee_structure_id].class_id = ClassOf(selectedStudent)
             /\ fee_structures[row.fee_structure_id].academic_year_id = selectedYearId
             /\ fee_structures[row.fee_structure_id].is_active]_vars

\* C27 witness: with structures of class B for both years in the store, a
\* payment of student 2 has been recorded under year Y2 against the structure
\* of Y2, whichever of the two rows that is.
C27_Witness ==
  /\ Len(fee_structures) = 2
  /\ fee_structures[1].academic_year_id # fee_structures[2].academic_year_id
  /\ toast = PaymentRecorded
  /\ fee_payments # <<>>
  /\ LET row == fee_payments[Len(fee_payments)]
     IN /\ row.student_id = 2
        /\ row.academic_year_id = "Y2"
        /\ fee_structures[row.fee_structure_id].academic_year_id = "Y2"
        /\ row.status = "paid"

(* ---------------- Attendance: AttendanceEntry ---------------- *)

\* The dates the date field is set to.
AttendanceDates == {"d1", "d2"}

\* Rows the attendance table holds at most.
MaxAttendance == 4

AttendanceSaved == "Attendance has been saved successfully."

\* The students query of the selected class, ordered by full_name.
classStudents(c) == IF c = "A" THEN <<1>> ELSE <<2, 3>>

\* The ids of those students: students.map(s => s.id).
classStudentIds(c) == {classStudents(c)[i] : i \in 1..Len(classStudents(c))}

\* .delete().eq('attendance_date', selectedDate).in('student_id', ids): the rows
\* that stay.
WithoutDateAndStudents(rows, date, ids) ==
  LET F[i \in 0..Len(rows)] ==
        IF i = 0 THEN <<>>
        ELSE IF rows[i].attendance_date = date /\ rows[i].student_id \in ids
             THEN F[i-1] ELSE Append(F[i-1], rows[i])
  IN F[Len(rows)]

\* students.map(student => ({student_id, attendance_date, is_present: ...}));
\* marks is the attendance state of the form at the click.
attendanceRecords(c, date, marks) ==
  [i \in 1..Len(classStudents(c)) |->
     [student_id |-> classStudents(c)[i], attendance_date |-> date,
      is_present |-> marks[classStudents(c)[i]]]]

\* The Save Attendance button with saveAttendance, onSuccess and onError: the
\* delete, whose result is not looked at (deleteOk says whether the store
\* carried it out), then the insert of one record per student, whose error is
\* thrown (insertOk).
saveAttendance(c, date, marks, deleteOk, insertOk) ==
  LET kept == IF deleteOk
              THEN WithoutDateAndStudents(attendance, date, classStudentIds(c))
              ELSE attendance
  IN /\ IF insertOk
        THEN /\ Len(kept) + Len(classStudents(c)) <= MaxAttendance
             /\ attendance' = kept \o attendanceRecords(c, date, marks)
             /\ toast' = AttendanceSaved
        ELSE /\ attendance' = kept
             /\ toast' = StorageError
     /\ UNCHANGED <<allReportCards, selectedClass, fee_structures, fee_payments,
                    selectedYearId, editingId, isOpen, selectedStudent, academic_years,
                    activating, gradeSaves, rendered, inFlight>>

NextAttendance ==
  \E c \in Classes : \E date \in AttendanceDates :
    \E marks \in [classStudentIds(c) -> BOOLEAN] :
      \E deleteOk \in BOOLEAN : \E insertOk \in BOOLEAN :
        saveAttendance(c, date, marks, deleteOk, insertOk)

\* The attendance form of one session.
SpecAttendance == Init /\ [][NextAttendance]_vars

\* The rows of a sequence of attendance rows that are of the date and of one of
\* the students, and those that are not.
RowsOfDateAndStudents(rows, date, ids) ==
  LET F[i \in 0..Len(rows)] ==
        IF i = 0 THEN <<>>
        ELSE IF rows[i].attendance_date = date /\ rows[i].student_id \in ids
             THEN Append(F[i-1], rows[i]) ELSE F[i-1]
  IN F[Len(rows)]

(* ---------------- C28: what a successful attendance save leaves ---------------- *)

\* C28: after saveAttendance has succeeded for a class and a date, the store
\* holds exactly one record of that date for each student of the class, with
\* is_present as marked in the form, and the records of other dates and of
\* other students are what they were.
C28_SaveLeavesOneRecordPerStudent ==
  [][\A c \in Classes : \A date \in AttendanceDates :
       \A marks \in [classStudentIds(c) -> BOOLEAN] : \A deleteOk \in BOOLEAN :
         saveAttendance(c, date, marks, deleteOk, TRUE) =>
           /\ \A s \in classStudentIds(c) :
                /\ Cardinality({k \in 1..Len(attendance') :
                                  /\ attendance'[k].student_id = s
                                  /\ attendance'[k].attendance_date = date}) = 1
                /\ \A k \in 1..Len(attendance') :
                     (attendance'[k].student_id = s /\ attendance'[k].attendance_date = date)
                       => attendance'[k].is_present = marks[s]
           /\ WithoutDateAndStudents(attendance', date, classStudentIds(c))
                = WithoutDateAndStudents(attendance, date, classStudentIds(c))]_vars

(* ---------------- C29: what a failed attendance save leaves ---------------- *)

\* C29: a failed attendance save loses no data: when the insert of
\* saveAttendance fails, the records the store held for the class and the date
\* before the save are still there.
C29_FailedSaveKeepsRecords ==
  [][\A c \in Classes : \A date \in AttendanceDates :
       \A marks \in [classStudentIds(c) -> BOOLEAN] : \A deleteOk \in BOOLEAN :
         saveAttendance(c, date, marks, deleteOk, FALSE) =>
           RowsOfDateAndStudents(attendance', date, classStudentIds(c))
             = RowsOfDateAndStudents(attendance, date, classStudentIds(c))]_vars

(* ---------------- Deactivating a fee structure and creating it again ---------------- *)

NextReplace ==
  \/ handleSave("B", "100000", "", "", TRUE, TRUE)
  \/ \E id \in 1..MaxStructures : \E storageOk \in BOOLEAN : handleDelete(id, storageOk)
  \/ openDialog
  \/ resetForm
  \/ \E y \in Years : switchYear(y)
  \/ handleStudentSelect(2)
  \/ \E fs \in 1..MaxStructures : submitPaymentForm(fs, "50000", TRUE)

\* Creates and deactivations of the fee structure of class B, and payments of
\* student 2, in one session.
SpecReplace == Init /\ [][NextReplace]_vars

(* ---------------- C30: delete is a deactivation, and the pair can be created again ---------------- *)

\* C30: handleDelete only sets is_active = false on its row: the table keeps its
\* rows, every other field and every other row is as before, and the payments
\* (those of the deactivated row included) are unchanged. A create for the same
\* class and year that follows (the pair has a deactivated row and no active
\* one) passes the duplicate guard and leaves exactly one active row for the
\* pair, the old rows and the payments being as before.
C30_DeleteDeactivatesAndCreateFollows ==
  [][ /\ \A id \in 1..MaxStructures :
           handleDelete(id, TRUE) =>
             /\ fee_structures' = [fee_structures EXCEPT ![id].is_active = FALSE]
             /\ fee_payments' = fee_payments
      /\ ( /\ editingId = 0
           /\ \E k \in 1..Len(fee_structures) :
                /\ fee_structures[k].class_id = "B"
                /\ fee_structures[k].academic_year_id = selectedYearId
                /\ ~fee_structures[k].is_active
           /\ \A k \in 1..Len(fee_structures) :
                (fee_structures[k].class_id = "B"
                   /\ fee_structures[k].academic_year_id = selectedYearId)
                  => ~fee_structures[k].is_active
           /\ handleSave("B", "100000", "", "", TRUE, TRUE) )
         => /\ toast' = StructureCreated
            /\ Len(fee_structures') = Len(fee_structures) + 1
            /\ SubSeq(fee_structures', 1, Len(fee_structures)) = fee_structures
            /\ Cardinality({k \in 1..Len(fee_structures') :
                              /\ fee_structures'[k].class_id = "B"
                              /\ fee_structures'[k].academic_year_id = selectedYearId
                              /\ fee_structures'[k].is_active}) = 1
            /\ fee_payments' = fee_payments ]_vars

\* C30 witness: the structure of class B was paid against, deactivated and
\* created again: row 1 is inactive and still referenced by the payment, row 2 is
\* the active row of the same year.
C30_Witness ==
  /\ Len(fee_structures) = 2
  /\ ~fee_structures[1].is_active
  /\ fee_structures[2].is_active
  /\ fee_structures[1].class_id = "B" /\ fee_structures[2].class_id = "B"
  /\ fee_structures[1].academic_year_id = fee_structures[2].academic_year_id
  /\ toast = StructureCreated
  /\ Len(fee_payments) = 1
  /\ fee_payments[1].fee_structure_id = 1
  /\ fee_payments[1].amount_paid = 50000

====
